---- MODULE Spec2Model ----
(***************************************************************************)
(* Model of ppsr.py: the /open_ppsr endpoint and the scripted browser      *)
(* sequence open_ppsr_site.                                                *)
(*                                                                         *)
(* One call is modelled from the arrival of the HTTP request to its        *)
(* response.  The remote page is the environment: every wait, lookup,      *)
(* click, hover, check and keystroke on the page either succeeds or raises *)
(* (element absent, not actionable, network never idle), chosen            *)
(* nondeterministically.  The local infrastructure (browser launch and     *)
(* close, tracing start/stop, screenshot writing, logging, directory       *)
(* creation) is taken to complete.                                         *)
(***************************************************************************)
EXTENDS Integers, Sequences, FiniteSets, TLC

\* Number of distinct values uuid4().hex[:8] can produce in the model.
NumIds == 2

Ids == 1..NumIds
NoId == 0
Boxes == {"login", "search"}
Buttons == {"login", "search"}
FieldNames == {"username", "password", "vin"}
LOG_DIR == "logs"

VARIABLES
    pc,           \* position of the call
    ep_request_id,\* request_id local of open_ppsr (NoId while unbound)
    request_id,   \* request_id parameter of open_ppsr_site
    genCount,     \* number of uuid.uuid4() calls
    run_dir,      \* artifact directory of the call
    trace_path,   \* trace archive path
    logs,         \* log lines written: <<id in the line's prefix, text>>
    shots,        \* screenshots written: <<directory, name>>
    browser,      \* "none" | "open" | "closed" (closed by browser.close())
    playwright,   \* "off" | "running" | "stopped" (async with async_playwright)
    tracing,      \* "off" | "on" | "saved"
    fields,       \* each field: "untouched" | "cleared" | "partial" | "filled"
    cbNow,        \* page state of each declaration checkbox
    cbRead,       \* what is_checked returned for each checkbox
    checkCalls,   \* page.check calls per checkbox
    ran,          \* steps of the sequence that have been started
    runs,         \* how often each step has been started
    failed,       \* steps whose guarded operation raised
    clicks,       \* clicks delivered to the login / search button
    pending,      \* buttons with a click task left running by asyncio.gather
    loginBtn,     \* "unknown" | "present" | "absent": explicit login button
    genericBtn,   \* "unknown" | "present" | "absent": generic submit control
    loginActs,    \* submit candidates acted on, in order
    menuAt,       \* progress of the menu traversal
    plate_number, \* "unbound" | "" | "PLATE"
    exc,          \* message of the exception in flight
    result,       \* value returned by open_ppsr_site
    response      \* HTTP response of the call

vars == <<pc, ep_request_id, request_id, genCount, run_dir, trace_path,
          logs, shots, browser, playwright, tracing, fields, cbNow, cbRead,
          checkCalls, ran, runs, failed, clicks, pending, loginBtn, genericBtn,
          loginActs, menuAt, plate_number, exc, result, response>>

StepNames == {"goto", "form", "username", "password", "login_cb", "login",
              "menu", "vin", "search", "extract", "finish"}

NoResponse == [kind |-> "none"]

Init ==
    /\ pc = "http"
    /\ ep_request_id = NoId
    /\ request_id = NoId
    /\ genCount = 0
    /\ run_dir = <<>>
    /\ trace_path = <<>>
    /\ logs = {}
    /\ shots = {}
    /\ browser = "none"
    /\ playwright = "off"
    /\ tracing = "off"
    /\ fields = [f \in FieldNames |-> "untouched"]
    /\ cbNow = [b \in Boxes |-> "unknown"]
    /\ cbRead = [b \in Boxes |-> "unread"]
    /\ checkCalls = [b \in Boxes |-> 0]
    /\ ran = {}
    /\ runs = [s \in StepNames |-> 0]
    /\ failed = {}
    /\ clicks = [b \in Buttons |-> 0]
    /\ pending = {}
    /\ loginBtn = "unknown"
    /\ genericBtn = "unknown"
    /\ loginActs = <<>>
    /\ menuAt = "none"
    /\ plate_number = "unbound"
    /\ exc = "none"
    /\ result = NoResponse
    /\ response = NoResponse

----------------------------------------------------------------------------
\* Helpers

\* logger.<level>(f"[{id}] ...") for each text
Log(id, texts) == logs' = logs \cup {<<id, t>> : t \in texts}

\* page.screenshot(path=os.path.join(run_dir, name))
Shot(names) == shots' = shots \cup {<<run_dir, n>> : n \in names}

\* A step of the sequence starts
Begin(step) ==
    /\ ran' = ran \cup {step}
    /\ runs' = [runs EXCEPT ![step] = @ + 1]

\* An exception leaves open_ppsr_site: the async with block is left and the
\* exception travels to the endpoint's handler.
Raise(msg) ==
    /\ exc' = msg
    /\ playwright' = "stopped"
    /\ pending' = {}
    /\ pc' = "raised"

\* type_like_human(locator, text): the outcomes, as (raised, state of the
\* field).  locator.click() raises before anything is typed; a locator.type
\* raises part-way; otherwise the whole text is entered (a failing
\* locator.fill("") is swallowed).
type_like_human ==
    {[raised |-> FALSE, field |-> "filled"],
     [raised |-> TRUE, field |-> "untouched"],
     [raised |-> TRUE, field |-> "partial"]}

----------------------------------------------------------------------------
\* open_ppsr: request received, correlation id generated, call forwarded
HttpReceive ==
    /\ pc = "http"
    /\ \E id \in Ids :
        /\ ep_request_id' = id
        /\ request_id' = id
        /\ Log(id, {"HTTP received"})
    /\ genCount' = genCount + 1
    /\ pc' = "start"
    /\ UNCHANGED <<run_dir, trace_path, shots, browser, playwright,
                   tracing, fields, cbNow, cbRead, checkCalls, ran, runs,
                   failed, clicks, pending, loginBtn, genericBtn, loginActs, menuAt,
                   plate_number, exc, result, response>>

\* open_ppsr_site up to the first navigation: run folder, browser launch,
\* context, tracing start, page and its event handlers
StartRun ==
    /\ pc = "start"
    /\ run_dir' = <<LOG_DIR, request_id>>
    /\ Log(request_id, {"Start run", "Logs dir", "Headless mode", "Opening"})
    /\ playwright' = "running"
    /\ browser' = "open"
    /\ tracing' = "on"
    /\ pc' = "goto"
    /\ UNCHANGED <<ep_request_id, request_id, genCount, trace_path,
                   shots, fields, cbNow, cbRead, checkCalls, ran, runs, failed,
                   clicks, pending, loginBtn, genericBtn, loginActs, menuAt, plate_number,
                   exc, result, response>>

\* Variant of GotoFailed that swallows the failure and carries on
GotoFailed_continue ==
    /\ pc' = "wait_form"
    /\ UNCHANGED <<browser, playwright, pending, exc, logs, shots>>

\* Handler of a failed page.goto
GotoFailed ==
    /\ browser' = "closed"
    /\ Raise("Failed to load page")
    /\ UNCHANGED <<logs, shots>>

\* page.goto, then the initial screenshot
Goto ==
    /\ pc = "goto"
    /\ Begin("goto")
    /\ \/ /\ Log(request_id, {"Page loaded"})
          /\ Shot({"ppsr_initial"})
          /\ pc' = "wait_form"
          /\ UNCHANGED <<browser, playwright, pending, exc, failed>>
       \/ /\ failed' = failed \cup {"goto"}
          /\ GotoFailed
    /\ UNCHANGED <<ep_request_id, request_id, genCount, run_dir,
                   trace_path, tracing, fields, cbNow, cbRead, checkCalls,
                   clicks, loginBtn, genericBtn, loginActs, menuAt, plate_number, result, response>>

\* Variant of FormNotFound that raises without the diagnostic screenshot
FormNotFound_noShot ==
    /\ UNCHANGED shots
    /\ browser' = "closed"
    /\ Raise("Login form not found")

\* Handler of a failed wait for the login form
FormNotFound ==
    /\ Shot({"ppsr_form_not_found"})
    /\ browser' = "closed"
    /\ Raise("Login form not found")

\* page.wait_for_selector("input[type='text'], input[type='password']")
WaitForm ==
    /\ pc = "wait_form"
    /\ Begin("form")
    /\ \/ /\ Log(request_id, {"Login form detected"})
          /\ pc' = "username"
          /\ UNCHANGED <<shots, browser, playwright, pending, exc, failed>>
       \/ /\ failed' = failed \cup {"form"}
          /\ FormNotFound
          /\ UNCHANGED logs
    /\ UNCHANGED <<ep_request_id, request_id, genCount, run_dir,
                   trace_path, tracing, fields, cbNow, cbRead, checkCalls,
                   clicks, loginBtn, genericBtn, loginActs, menuAt, plate_number, result, response>>

\* Fill one credential field: locator(...).first, count() > 0, type_like_human
FillField(step, field, next, missing) ==
    /\ Begin(step)
    /\ \/ \E o \in type_like_human :
            /\ fields' = [fields EXCEPT ![field] = o.field]
            /\ IF o.raised
                 THEN /\ failed' = failed \cup {"typing"}
                      /\ Raise("Timeout")
                      /\ UNCHANGED browser
                 ELSE /\ pc' = next
                      /\ UNCHANGED <<browser, playwright, pending, exc, failed>>
       \/ /\ failed' = failed \cup {step \o "_lookup"}
          /\ browser' = "closed"
          /\ Raise(missing)
          /\ UNCHANGED fields
    /\ UNCHANGED <<ep_request_id, request_id, genCount, run_dir,
                   trace_path, logs, shots, tracing, cbNow, cbRead, checkCalls,
                   clicks, loginBtn, genericBtn, loginActs, menuAt, plate_number, result, response>>

FillUsername ==
    /\ pc = "username"
    /\ FillField("username", "username", "password",
                 "Username field not found")

FillPassword ==
    /\ pc = "password"
    /\ FillField("password", "password", "login_cb",
                 "Password field not found")

\* Variant of EnsureChecked that calls page.check whatever is_checked said
EnsureChecked_always(box, res, was) ==
    /\ res \in {"ok", "wait", "check"}
    /\ was \in {"checked", "unchecked"}
    /\ IF res = "wait"
         THEN UNCHANGED <<cbNow, cbRead, checkCalls>>
         ELSE /\ cbRead' = [cbRead EXCEPT ![box] = was]
              /\ checkCalls' = [checkCalls EXCEPT ![box] = @ + 1]
              /\ cbNow' = [cbNow EXCEPT
                             ![box] = IF res = "ok" THEN "checked" ELSE was]

\* "Ensure the declaration checkbox is checked": wait_for_selector,
\* is_checked, and page.check only when it is not.  res is "ok" or the
\* operation that raised.
EnsureChecked(box, res, was) ==
    /\ res \in {"ok", "wait", "check"}
    /\ was \in {"checked", "unchecked"}
    /\ res = "check" => was = "unchecked"
    /\ IF res = "wait"
         THEN UNCHANGED <<cbNow, cbRead, checkCalls>>
         ELSE /\ cbRead' = [cbRead EXCEPT ![box] = was]
              /\ checkCalls' = [checkCalls EXCEPT
                                  ![box] = IF was = "unchecked" THEN @ + 1 ELSE @]
              /\ cbNow' = [cbNow EXCEPT
                             ![box] = IF res = "ok" THEN "checked" ELSE was]

\* Handler of a failed login declaration step
LoginDeclarationFailed ==
    /\ Shot({"ppsr_checkbox_error"})
    /\ browser' = "closed"
    /\ Raise("Declaration checkbox not found or not clickable")

\* Tick the login declaration checkbox
LoginDeclaration ==
    /\ pc = "login_cb"
    /\ Begin("login_cb")
    /\ \E res \in {"ok", "wait", "check"}, was \in {"checked", "unchecked"} :
        /\ EnsureChecked("login", res, was)
        /\ IF res = "ok"
             THEN /\ Log(request_id,
                         {IF was = "unchecked" THEN "Declaration checkbox checked"
                                               ELSE "Declaration checkbox already checked",
                          "Credentials entered"})
                  /\ pc' = "login_wait"
                  /\ UNCHANGED <<shots, browser, playwright, pending, exc, failed>>
             ELSE /\ failed' = failed \cup {"login_cb"}
                  /\ LoginDeclarationFailed
                  /\ UNCHANGED logs
    /\ UNCHANGED <<ep_request_id, request_id, genCount, run_dir,
                   trace_path, tracing, fields, clicks, loginBtn, genericBtn, loginActs,
                   menuAt, plate_number, result, response>>

\* What no step between the first navigation and the final block touches
StepFrame ==
    UNCHANGED <<ep_request_id, request_id, genCount, run_dir, trace_path,
                tracing, result, response>>

----------------------------------------------------------------------------
\* Login submission

\* asyncio.gather(page.wait_for_load_state("networkidle"), button.click()):
\* the outcomes.  gather raises as soon as one of the two raises and leaves
\* the other running.
GatherOutcomes == {"both_ok", "clicked_idle_timeout", "click_raised",
                   "idle_timeout_click_running"}

GatherRaises(o) == o # "both_ok"

\* Effect of the gather on the button
GatherClick(b, o) ==
    /\ clicks' = [clicks EXCEPT
                    ![b] = IF o \in {"both_ok", "clicked_idle_timeout"}
                             THEN @ + 1 ELSE @]
    /\ pending' = IF o = "idle_timeout_click_running"
                    THEN pending \cup {b} ELSE pending

\* Entry of the login fallback (the outer except: warning, then the
\* generic/Enter block)
ToLoginFallback ==
    /\ Log(request_id, {"Explicit login button not available"})
    /\ failed' = failed \cup {"login_explicit"}
    /\ pc' = "login_fallback"

\* wait_for_selector(LOGIN_BUTTON), locator, scroll_into_view_if_needed
LoginWait ==
    /\ pc = "login_wait"
    /\ Begin("login")
    /\ \/ /\ loginBtn' = "present"
          /\ \/ /\ pc' = "login_gather"
                /\ UNCHANGED <<logs, failed>>
             \/ ToLoginFallback          \* scroll_into_view_if_needed raised
       \/ /\ loginBtn' = "absent"
          /\ ToLoginFallback
    /\ StepFrame
    /\ UNCHANGED <<shots, browser, playwright, fields, cbNow, cbRead,
                   checkCalls, clicks, pending, genericBtn, loginActs, menuAt,
                   plate_number, exc>>

\* The click on the explicit button together with the network-idle wait
LoginGather ==
    /\ pc = "login_gather"
    /\ loginActs' = Append(loginActs, "explicit")
    /\ \E o \in GatherOutcomes :
        /\ GatherClick("login", o)
        /\ IF GatherRaises(o)
             THEN /\ pc' = "login_force"
                  /\ UNCHANGED logs
             ELSE /\ Log(request_id, {"Login button clicked (explicit)"})
                  /\ pc' = "menu"
    /\ StepFrame
    /\ UNCHANGED <<shots, browser, playwright, fields, cbNow, cbRead,
                   checkCalls, ran, runs, failed, loginBtn, genericBtn, menuAt,
                   plate_number, exc>>

\* except of the gather: login_btn.click(force=True)
LoginForce ==
    /\ pc = "login_force"
    /\ loginActs' = Append(loginActs, "explicit_force")
    /\ \/ /\ clicks' = [clicks EXCEPT !["login"] = @ + 1]
          /\ Log(request_id, {"Login button clicked (explicit)"})
          /\ pc' = "menu"
          /\ UNCHANGED failed
       \/ /\ ToLoginFallback
          /\ UNCHANGED clicks
    /\ StepFrame
    /\ UNCHANGED <<shots, browser, playwright, fields, cbNow, cbRead,
                   checkCalls, ran, runs, pending, loginBtn, genericBtn, menuAt,
                   plate_number, exc>>

\* Variant of LoginFallback that presses Enter after a failed generic click
LoginFallback_thenEnter ==
    /\ pc = "login_fallback"
    /\ \/ \E generic \in BOOLEAN, ok \in BOOLEAN :
            /\ genericBtn' = IF generic THEN "present" ELSE "absent"
            /\ loginActs' = IF generic /\ ~ok
                               THEN loginActs \o <<"generic", "enter">>
                               ELSE Append(loginActs,
                                           IF generic THEN "generic" ELSE "enter")
            /\ IF ok \/ generic
                 THEN /\ Log(request_id,
                             {IF generic /\ ok THEN "Login button clicked (generic)"
                                               ELSE "Pressed Enter to submit"})
                      /\ UNCHANGED failed
                 ELSE /\ Log(request_id, {"Login fallback failed"})
                      /\ failed' = failed \cup {"login_submit"}
       \/ /\ Log(request_id, {"Login fallback failed"})
          /\ failed' = failed \cup {"login_submit"}
          /\ UNCHANGED <<loginActs, genericBtn>>
    /\ pc' = "menu"
    /\ UNCHANGED <<ep_request_id, request_id, genCount, run_dir, trace_path,
                   tracing, result, response>>
    /\ UNCHANGED <<shots, browser, playwright, fields, cbNow, cbRead,
                   checkCalls, ran, runs, clicks, pending, loginBtn, menuAt,
                   plate_number, exc>>

\* Fallback: a generic submit control if query_selector finds one, else Enter
LoginFallback ==
    /\ pc = "login_fallback"
    /\ \/ \E generic \in BOOLEAN, ok \in BOOLEAN :
            /\ genericBtn' = IF generic THEN "present" ELSE "absent"
            /\ loginActs' = Append(loginActs,
                                   IF generic THEN "generic" ELSE "enter")
            /\ IF ok
                 THEN /\ Log(request_id,
                             {IF generic THEN "Login button clicked (generic)"
                                         ELSE "Pressed Enter to submit"})
                      /\ UNCHANGED failed
                 ELSE /\ Log(request_id, {"Login fallback failed"})
                      /\ failed' = failed \cup {"login_submit"}
       \/ /\ Log(request_id, {"Login fallback failed"})   \* query_selector raised
          /\ failed' = failed \cup {"login_submit"}
          /\ UNCHANGED <<loginActs, genericBtn>>
    /\ pc' = "menu"
    /\ StepFrame
    /\ UNCHANGED <<shots, browser, playwright, fields, cbNow, cbRead,
                   checkCalls, ran, runs, clicks, pending, loginBtn, menuAt,
                   plate_number, exc>>

\* A click task that gather left running completes (delivered or raised)
OrphanClick ==
    /\ browser = "open"
    /\ \E b \in pending :
        /\ pending' = pending \ {b}
        /\ \/ clicks' = [clicks EXCEPT ![b] = @ + 1]
           \/ UNCHANGED clicks
    /\ UNCHANGED <<pc, ep_request_id, request_id, genCount, run_dir,
                   trace_path, logs, shots, browser, playwright, tracing,
                   fields, cbNow, cbRead, checkCalls, ran, runs, failed,
                   loginBtn, genericBtn, loginActs, menuAt, plate_number, exc, result,
                   response>>

----------------------------------------------------------------------------
\* Menu traversal: hover 'PPSR Search' -> hover 'Search by serial number' ->
\* click the first submenu item

MenuProgress == <<"none", "ppsr_search", "serial", "clicked">>

\* The operations of the traversal, in order, with the progress reached
\* before each of them; "none" = nothing raised.
MenuFailPoints ==
    [main_menu |-> 1, hover1 |-> 1, submenu1 |-> 2, hover2 |-> 2,
     submenu2 |-> 3, item |-> 3, idle |-> 4, none |-> 4]

MenuLogs(reached) ==
    (IF reached >= 2 THEN {"Hovered PPSR Search"} ELSE {})
        \cup (IF reached >= 3 THEN {"Hovered Search by serial number"} ELSE {})
        \cup (IF reached >= 4 THEN {"Clicked first submenu item"} ELSE {})

\* Variant of MenuFailed that treats the failure as fatal
MenuFailed_abort(said) ==
    /\ Log(request_id, said \cup {"Menu navigation failed"})
    /\ Shot({"ppsr_nav_error"})
    /\ failed' = failed \cup {"menu"}
    /\ browser' = "closed"
    /\ Raise("Menu navigation failed")

\* Handler of a failed menu traversal
MenuFailed(said) ==
    /\ Log(request_id, said \cup {"Menu navigation failed"})
    /\ Shot({"ppsr_nav_error"})
    /\ failed' = failed \cup {"menu"}
    /\ pc' = "vin"
    /\ UNCHANGED <<browser, playwright, pending, exc>>

MenuNav ==
    /\ pc = "menu"
    /\ Begin("menu")
    /\ \E f \in DOMAIN MenuFailPoints :
        LET reached == MenuFailPoints[f] IN
        /\ menuAt' = MenuProgress[reached]
        /\ IF f = "none"
             THEN /\ Log(request_id, MenuLogs(reached) \cup {"Landed on"})
                  /\ Shot({"ppsr_after_menu_nav"})
                  /\ pc' = "vin"
                  /\ UNCHANGED <<browser, playwright, pending, exc, failed>>
             ELSE MenuFailed(MenuLogs(reached))
    /\ StepFrame
    /\ UNCHANGED <<fields, cbNow, cbRead, checkCalls, clicks, loginBtn, genericBtn,
                   loginActs, plate_number>>

----------------------------------------------------------------------------
\* VIN entry and search declaration

\* Handler of a failed VIN/declaration step
VinFailed(said) ==
    /\ Log(request_id, said \cup {"VIN/Declaration step failed"})
    /\ Shot({"ppsr_vin_decl_error"})
    /\ failed' = failed \cup {"vin"}
    /\ pc' = "search_wait"

\* wait for the VIN input, click and clear it, type the VIN, then ensure the
\* search declaration checkbox is checked
VinDecl ==
    /\ pc = "vin"
    /\ Begin("vin")
    /\ \/ /\ VinFailed({})      \* wait_for_selector, scroll, click or clearing raised
          /\ UNCHANGED <<fields, cbNow, cbRead, checkCalls>>
       \/ \E o \in type_like_human :
            /\ fields' = [fields EXCEPT
                           !["vin"] = IF o.field = "untouched" THEN "cleared"
                                                              ELSE o.field]
            /\ IF o.raised
                 THEN /\ VinFailed({})
                      /\ UNCHANGED <<cbNow, cbRead, checkCalls>>
                 ELSE \E res \in {"ok", "wait", "check"},
                         was \in {"checked", "unchecked"} :
                        /\ EnsureChecked("search", res, was)
                        /\ IF res = "ok"
                             THEN /\ Log(request_id,
                                         {"Entered VIN",
                                          IF was = "unchecked"
                                            THEN "Search declaration checkbox checked"
                                            ELSE "Search declaration checkbox already checked"})
                                  /\ Shot({"ppsr_after_vin_and_decl"})
                                  /\ pc' = "search_wait"
                                  /\ UNCHANGED failed
                             ELSE VinFailed({"Entered VIN"})
    /\ StepFrame
    /\ UNCHANGED <<browser, playwright, pending, exc, clicks, loginBtn, genericBtn,
                   loginActs, menuAt, plate_number>>

----------------------------------------------------------------------------
\* Search click

\* Handler of a failed search click
SearchFailed ==
    /\ Log(request_id, {"Search button click failed"})
    /\ Shot({"ppsr_search_click_error"})
    /\ failed' = failed \cup {"search"}
    /\ pc' = "extract"

\* After the click: log, pause, screenshot
SearchClicked ==
    /\ Log(request_id, {"Clicked Search"})
    /\ Shot({"ppsr_after_search_click"})
    /\ pc' = "extract"
    /\ UNCHANGED failed

\* wait_for_selector(SEARCH_BUTTON), locator, scroll_into_view_if_needed
SearchWait ==
    /\ pc = "search_wait"
    /\ Begin("search")
    /\ \/ /\ pc' = "search_gather"
          /\ UNCHANGED <<logs, shots, failed>>
       \/ SearchFailed
    /\ StepFrame
    /\ UNCHANGED <<browser, playwright, pending, exc, fields, cbNow, cbRead,
                   checkCalls, clicks, loginBtn, genericBtn, loginActs, menuAt,
                   plate_number>>

\* The click on the search button together with the network-idle wait
SearchGather ==
    /\ pc = "search_gather"
    /\ \E o \in GatherOutcomes :
        /\ GatherClick("search", o)
        /\ IF GatherRaises(o)
             THEN /\ pc' = "search_retry"
                  /\ UNCHANGED <<logs, shots, failed>>
             ELSE SearchClicked
    /\ StepFrame
    /\ UNCHANGED <<browser, playwright, exc, fields, cbNow, cbRead,
                   checkCalls, ran, runs, loginBtn, genericBtn, loginActs, menuAt,
                   plate_number>>

\* except of the gather: search_btn.click()
SearchRetry ==
    /\ pc = "search_retry"
    /\ \/ /\ clicks' = [clicks EXCEPT !["search"] = @ + 1]
          /\ SearchClicked
       \/ /\ SearchFailed
          /\ UNCHANGED clicks
    /\ StepFrame
    /\ UNCHANGED <<browser, playwright, pending, exc, fields, cbNow, cbRead,
                   checkCalls, ran, runs, loginBtn, genericBtn, loginActs, menuAt,
                   plate_number>>

----------------------------------------------------------------------------
\* Plate extraction

\* Texts the plate element can hold after .strip()
PlateTexts == {"", "PLATE"}

\* Handler of a failed extraction
ExtractFailed ==
    /\ Log(request_id, {"Could not extract plate number"})
    /\ Shot({"ppsr_plate_extract_error"})
    /\ failed' = failed \cup {"extract"}
    /\ UNCHANGED plate_number

\* Read the plate from the element with PLATE_VALUE_ID if there is one, else
\* from the dd next to the 'Registration plate number:' label
Extract ==
    /\ pc = "extract"
    /\ Begin("extract")
    /\ \/ \E byId \in BOOLEAN, text \in PlateTexts :
            /\ plate_number' = text
            /\ Log(request_id, {"Registration plate number"})
            /\ Shot({"ppsr_plate_extracted"})
            /\ UNCHANGED failed
       \/ ExtractFailed         \* wait_for(visible) or inner_text raised
    /\ pc' = "finish"
    /\ StepFrame
    /\ UNCHANGED <<browser, playwright, pending, exc, fields, cbNow, cbRead,
                   checkCalls, clicks, loginBtn, genericBtn, loginActs, menuAt>>

----------------------------------------------------------------------------
\* End of the sequence

\* The dict open_ppsr_site returns
ResultDict ==
    [status |-> "success",
     message |-> "Login attempt completed",
     plateNumber |-> IF plate_number # "" THEN plate_number ELSE "null",
     requestId |-> request_id,
     logsDir |-> run_dir,
     trace |-> <<run_dir, "trace", request_id>>]

\* Final screenshot, tracing.stop(path=trace_path), browser.close(), return
Finish ==
    /\ pc = "finish"
    /\ Begin("finish")
    /\ Shot({"ppsr_after_login"})
    /\ trace_path' = <<run_dir, "trace", request_id>>
    /\ tracing' = "saved"
    /\ Log(request_id, {"Browser closed after run"})
    /\ browser' = "closed"
    /\ IF plate_number = "unbound"
         THEN /\ Raise("UnboundLocalError: plate_number")
              /\ UNCHANGED result
         ELSE /\ result' = ResultDict
              /\ playwright' = "stopped"
              /\ pending' = {}
              /\ pc' = "returned"
              /\ UNCHANGED exc
    /\ UNCHANGED <<ep_request_id, request_id, genCount, run_dir, fields,
                   cbNow, cbRead, checkCalls, failed, clicks, loginBtn, genericBtn,
                   loginActs, menuAt, plate_number, response>>

\* Handlers registered with page.on (console, pageerror, requestfailed,
\* dialog): a page event writes a log line
PageEvent ==
    /\ playwright = "running"
    /\ browser = "open"
    /\ Log(request_id, {"page event"})
    /\ UNCHANGED <<pc, ep_request_id, request_id, genCount, run_dir,
                   trace_path, shots, browser, playwright, tracing, fields,
                   cbNow, cbRead, checkCalls, ran, runs, failed, clicks,
                   pending, loginBtn, genericBtn, loginActs, menuAt, plate_number, exc,
                   result, response>>

----------------------------------------------------------------------------
\* open_ppsr: the call came back

\* result returned to the client
HttpReturn ==
    /\ pc = "returned"
    /\ Log(ep_request_id, {"HTTP completed"})
    /\ response' = [kind |-> "ok", body |-> result]
    /\ pc' = "done"
    /\ UNCHANGED <<ep_request_id, request_id, genCount, run_dir,
                   trace_path, shots, browser, playwright, tracing, fields,
                   cbNow, cbRead, checkCalls, ran, runs, failed, clicks,
                   pending, loginBtn, genericBtn, loginActs, menuAt, plate_number, exc,
                   result>>

\* Variant of HttpError whose log line carries no correlation id
HttpError_noId ==
    /\ pc = "raised"
    /\ Log(NoId, {"Error"})
    /\ response' = [kind |-> "http500", detail |-> exc]
    /\ pc' = "done"
    /\ UNCHANGED <<ep_request_id, request_id, genCount, run_dir,
                   trace_path, shots, browser, playwright, tracing, fields,
                   cbNow, cbRead, checkCalls, ran, runs, failed, clicks,
                   pending, loginBtn, genericBtn, loginActs, menuAt,
                   plate_number, exc, result>>

\* except Exception: logger.exception, HTTPException(500, detail=str(e))
HttpError ==
    /\ pc = "raised"
    /\ Log(ep_request_id, {"Error"})
    /\ response' = [kind |-> "http500", detail |-> exc]
    /\ pc' = "done"
    /\ UNCHANGED <<ep_request_id, request_id, genCount, run_dir,
                   trace_path, shots, browser, playwright, tracing, fields,
                   cbNow, cbRead, checkCalls, ran, runs, failed, clicks,
                   pending, loginBtn, genericBtn, loginActs, menuAt, plate_number, exc,
                   result>>

----------------------------------------------------------------------------
Next ==
    \/ HttpReceive
    \/ StartRun
    \/ Goto
    \/ WaitForm
    \/ FillUsername
    \/ FillPassword
    \/ LoginDeclaration
    \/ LoginWait
    \/ LoginGather
    \/ LoginForce
    \/ LoginFallback
    \/ OrphanClick
    \/ MenuNav
    \/ VinDecl
    \/ SearchWait
    \/ SearchGather
    \/ SearchRetry
    \/ Extract
    \/ Finish
    \/ PageEvent
    \/ HttpReturn
    \/ HttpError

Spec == Init /\ [][Next]_vars
----------------------------------------------------------------------------
\* Properties

Ended == pc = "done"
Left == pc \in {"raised", "returned", "done"}
RunDir == <<LOG_DIR, ep_request_id>>
TracePath == <<RunDir, "trace", ep_request_id>>
ShotWritten(name) == <<RunDir, name>> \in shots
Logged(text) == <<ep_request_id, text>> \in logs
NothingEntered ==
    /\ \A f \in FieldNames : fields[f] = "untouched"
    /\ \A b \in Boxes : checkCalls[b] = 0 /\ cbRead[b] = "unread"
    /\ \A b \in Buttons : clicks[b] = 0
    /\ loginActs = <<>>
    /\ menuAt = "none"
    /\ plate_number = "unbound"

\* C1: if menu traversal fails after the login steps succeeded, the call
\* still attempts the VIN/declaration step and the search click, and if
\* plate extraction then fails too the response has status "success" and
\* plateNumber null (the call does not end in an error).
C1_MenuFailureStillSucceeds ==
    (Ended /\ "menu" \in failed) =>
        /\ {"vin", "search"} \subseteq ran
        /\ "extract" \in failed =>
            /\ response.kind = "ok"
            /\ response.body.status = "success"
            /\ response.body.plateNumber = "null"

\* C2: on every exit of open_ppsr_site after the browser was launched
\* (return or raise), browser.close has been called.
C2_BrowserClosedOnEveryExit ==
    (Left /\ browser # "none") => browser = "closed"

\* C3 (as stated): every failure of the login declaration checkbox, login
\* submit, menu traversal, VIN/search declaration, search click or plate
\* extraction is caught, leaves a screenshot, and the next step follows.
C3NextOf ==
    [login_cb |-> "login", login_submit |-> "menu", menu |-> "vin",
     vin |-> "search", search |-> "extract", extract |-> "finish"]
C3NextPc ==
    [login_cb |-> "login_wait", login_submit |-> "menu", menu |-> "vin",
     vin |-> "search_wait", search |-> "extract", extract |-> "finish"]
C3ErrorShot ==
    [login_cb |-> "ppsr_checkbox_error", login_submit |-> "ppsr_login_error",
     menu |-> "ppsr_nav_error", vin |-> "ppsr_vin_decl_error",
     search |-> "ppsr_search_click_error",
     extract |-> "ppsr_plate_extract_error"]
C3ErrorLog ==
    [login_submit |-> "Login fallback failed", menu |-> "Menu navigation failed",
     vin |-> "VIN/Declaration step failed",
     search |-> "Search button click failed",
     extract |-> "Could not extract plate number"]
C3Proceeds(s) == C3NextOf[s] \in ran \/ pc = C3NextPc[s]
C3_OnlyLoadFormFieldsAbort ==
    \A s \in DOMAIN C3NextOf :
        s \in failed => /\ ShotWritten(C3ErrorShot[s])
                        /\ C3Proceeds(s)

\* C3 (amended): a failure of the page load, the login form detection, a
\* credential field lookup or the login declaration checkbox ends the call
\* with nothing after it started; a failure of login submit, menu traversal,
\* VIN/search declaration, search click or plate extraction is caught and
\* logged and the next step follows, with a screenshot for each of them
\* except login submit.
C3Fatal ==
    [goto |-> {"goto"}, form |-> {"goto", "form"},
     username_lookup |-> {"goto", "form", "username"},
     password_lookup |-> {"goto", "form", "username", "password"},
     login_cb |-> {"goto", "form", "username", "password", "login_cb"}]
C3_FatalAndCaughtFailures ==
    /\ \A s \in DOMAIN C3Fatal :
        s \in failed => /\ pc \in {"raised", "done"}
                        /\ ran = C3Fatal[s]
                        /\ browser = "closed"
                        /\ Ended => response.kind = "http500"
    /\ \A s \in DOMAIN C3ErrorLog :
        s \in failed => /\ Logged(C3ErrorLog[s])
                        /\ s # "login_submit" => ShotWritten(C3ErrorShot[s])
                        /\ C3Proceeds(s)
    /\ "login_explicit" \in failed =>
        /\ Logged("Explicit login button not available")
        /\ pc = "login_fallback" \/ C3Proceeds("login_submit")

C3_Witness ==
    /\ Ended
    /\ {"login_submit", "menu", "vin", "search", "extract"} \subseteq failed
    /\ "finish" \in ran

\* C4: every call, whatever its outcome, has written at least one screenshot
\* and saved the trace archive by the time it ends.
C4_ArtifactsOnEveryOutcome ==
    Ended => /\ shots # {}
             /\ tracing = "saved"

\* C5: when page.goto fails the call ends in HTTP 500 carrying the message
\* and no later step (form detection, credentials, checkbox, login, menu,
\* VIN, search, extraction) is executed.
C5_PageLoadFailureEndsCall ==
    "goto" \in failed =>
        /\ pc \in {"raised", "done"}
        /\ exc = "Failed to load page"
        /\ ran = {"goto"}
        /\ NothingEntered
        /\ shots = {}
        /\ Ended => response = [kind |-> "http500", detail |-> "Failed to load page"]

C5_Witness == Ended /\ "goto" \in failed /\ response.kind = "http500"

\* C6: when the login form is not detected the call ends in a failure
\* response, ppsr_form_not_found.png is in the call's artifact directory
\* before the failure is raised, and no credential entry or later step is
\* executed.
C6_FormNotFoundEndsCall ==
    "form" \in failed =>
        /\ pc \in {"raised", "done"}
        /\ exc = "Login form not found"
        /\ ShotWritten("ppsr_form_not_found")
        /\ ran = {"goto", "form"}
        /\ NothingEntered
        /\ Ended => response = [kind |-> "http500", detail |-> "Login form not found"]

C6_Witness == pc = "raised" /\ "form" \in failed

\* C7: exactly one correlation id is generated per request and it is the id
\* of the artifact directory, the trace archive, the response's requestId
\* and every log line of the call, the error log line included.
C7_OneCorrelationId ==
    /\ genCount = (IF pc = "http" THEN 0 ELSE 1)
    /\ pc # "http" => ep_request_id \in Ids
    /\ \A l \in logs : l[1] = ep_request_id
    /\ \A sh \in shots : sh[1] = RunDir
    /\ run_dir # <<>> => run_dir = RunDir
    /\ trace_path # <<>> => trace_path = TracePath
    /\ response.kind = "ok" =>
        /\ response.body.requestId = ep_request_id
        /\ response.body.logsDir = RunDir
        /\ response.body.trace = TracePath
        /\ trace_path = TracePath
        /\ Logged("HTTP completed")
    /\ response.kind = "http500" => Logged("Error")

C7_Witness ==
    /\ Ended
    /\ response.kind = "http500"
    /\ "finish" \in ran
    /\ Logged("Error") /\ Logged("page event") /\ Logged("Start run")

\* C8: for both declaration checkboxes page.check is called only if
\* is_checked said unchecked; on an already checked box no check is made and
\* the step completes without error; after a successful step the box is
\* checked in either case.
C8BoxDone(b) ==
    IF b = "login" THEN "login" \in ran \/ pc = "login_wait"
                   ELSE ShotWritten("ppsr_after_vin_and_decl")
C8BoxStep(b) == IF b = "login" THEN "login_cb" ELSE "vin"
C8_CheckOnlyIfUnchecked ==
    \A b \in Boxes :
        /\ checkCalls[b] <= 1
        /\ checkCalls[b] = 1 <=> cbRead[b] = "unchecked"
        /\ cbRead[b] = "checked" => /\ C8BoxStep(b) \notin failed
                                    /\ C8BoxDone(b)
        /\ C8BoxDone(b) => cbNow[b] = "checked"

C8_Witness ==
    /\ Ended
    /\ cbRead["login"] = "checked" /\ checkCalls["login"] = 0
    /\ cbRead["search"] = "unchecked" /\ checkCalls["search"] = 1
    /\ cbNow = [b \in Boxes |-> "checked"]

\* C9 (as stated): at most one of the three candidates is acted on, and once
\* the explicit login button has been found no lower candidate is tried.
C9Candidate(a) == IF a = "explicit_force" THEN "explicit" ELSE a
C9Tried == {C9Candidate(loginActs[i]) : i \in DOMAIN loginActs}
C9_FirstMatchNoFurtherFallback ==
    /\ Cardinality(C9Tried) <= 1
    /\ loginBtn = "present" => C9Tried \subseteq {"explicit"}

\* C9 (amended): the explicit login button is tried first (the click with
\* the network-idle wait, then a forced click if that raises); the fallback
\* runs only after the explicit path raised, and in it exactly one of the
\* generic submit control (if present) or the Enter keypress is used, last
\* and with nothing after it, also when it fails.
C9Fallbacks == {i \in DOMAIN loginActs : loginActs[i] \in {"generic", "enter"}}
C9_ExplicitThenOneFallback ==
    /\ Cardinality(C9Fallbacks) <= 1
    /\ \A i \in C9Fallbacks : i = Len(loginActs)
    /\ C9Fallbacks # {} => "login_explicit" \in failed
    /\ \A i \in DOMAIN loginActs :
        /\ loginActs[i] = "explicit" => i = 1 /\ loginBtn = "present"
        /\ loginActs[i] = "explicit_force" => i = 2 /\ loginActs[1] = "explicit"
        /\ loginActs[i] = "generic" => genericBtn = "present"
        /\ loginActs[i] = "enter" => genericBtn = "absent"
    /\ Len(loginActs) <= 3

C9_Witness ==
    /\ loginActs = <<"explicit", "explicit_force", "generic">>
    /\ "login_submit" \in failed
    /\ Ended

\* C10: no step of the sequence runs more than once in a call, and the login
\* button and the search button each receive at most one click, also when
\* the network-idle wait gathered with the click times out after the click
\* was delivered.
C10_NoStepOrClickTwice ==
    /\ \A s \in StepNames : runs[s] <= 1
    /\ \A b \in Buttons : clicks[b] <= 1
====
